---- MODULE Spec2Model ----
(***************************************************************************)
(* Model of the ech-gui Tauri backend (src/ech-gui/src-tauri/src).         *)
(*                                                                         *)
(* ProcessManager (process.rs) supervises the ech-workers child process:   *)
(* start() spawns it and a stdout reader thread, stop() terminates it.     *)
(* Each statement of start()/stop() that touches shared state (the atomic  *)
(* is_running, the Mutex<Option<Child>>, the OS process, the event         *)
(* channel) is one action, so that calls made from different threads       *)
(* interleave the way the code allows.                                     *)
(***************************************************************************)
EXTENDS Integers, Sequences, FiniteSets, TLC

(* ---------------------------------------------------------------------- *)
(* Bounds                                                                  *)
(* ---------------------------------------------------------------------- *)
\* number of worker processes the OS lets the supervisor spawn in one run
MaxWorkers == 2
\* number of lines the workers write to their stdout pipes, all together
MaxLines == 2
\* number of stop() calls made on the supervisor
MaxStops == 2
\* number of profiles add_server lets the catalog grow to
MaxServers == 2
\* number of Uuid::new_v4() values drawn
MaxUuids == 2

\* threads that may call into the static PROCESS_MANAGER
Threads == {"ui", "bg"}

\* Option<Child>::None in the child slot / in a local
None == 0
Workers == 1..MaxWorkers
\* a run is named by its worker; None names the stops that held no child
Runs == {None} \cup Workers

\* a stdout line whose bytes are not valid UTF-8 (BufRead::lines yields Err)
InvalidUtf8 == "<invalid-utf8>"
\* what a worker may write as one line of stdout
StdoutLines == {"", "a", InvalidUtf8}

VARIABLES
    is_running,   \* ProcessManager.is_running : AtomicBool
    child,        \* ProcessManager.child : the Option<Child> inside the Mutex
    lock,         \* holder of the parking_lot Mutex around child, or "free"
    pc,           \* per thread: the statement of start()/stop() it is at
    local,        \* per thread: the local `child` of start()/stop()
    result,       \* per thread: what its last call returned
    worker,       \* per OS process: "unborn", "alive", "exited", "reaped"
    stdout,       \* per OS process: the lines it has written to its pipe
    reader,       \* per run: state of the stdout reader thread
    rpos,         \* per run: number of lines the reader has consumed
    events,       \* the Tauri event channel: the events emitted so far,
                  \* in order of emission, kept per run they belong to
    spawned,      \* number of processes spawned so far
    config,       \* ConfigManager.config : the AppConfig inside the RwLock
    disk,         \* the file at ConfigManager.config_path
    json,         \* per thread: the local `json` of save()
    uuids,        \* number of Uuid::new_v4() values drawn so far
    quit,         \* how far the tray "quit" handler has got
    platform,     \* target_os of the build
    ProxyEnable,  \* Windows: the ProxyEnable value under Internet Settings
    socks,        \* macOS: per network service, its SOCKS proxy state
    server,       \* the profile handed to start()
    args          \* the argument vector start() builds from it

\* the state of ProcessManager, its workers and the event channel
processVars == <<is_running, child, lock, pc, local, result, worker, stdout,
                 reader, rpos, events, spawned>>

\* the state of ConfigManager, the proxy settings and the host
facadeVars == <<config, disk, json, uuids, quit, platform, ProxyEnable,
                socks, server, args>>

vars == <<is_running, child, lock, pc, local, result, worker, stdout,
          reader, rpos, events, spawned, config, disk, json, uuids, quit,
          platform, ProxyEnable, socks, server, args>>

(* ---------------------------------------------------------------------- *)
(* Events                                                                  *)
(* ---------------------------------------------------------------------- *)
\* an event on the channel: its name and payload
Event(name, payload) == [name |-> name, payload |-> payload]

\* app_handle.emit(name, payload) on behalf of run r
Emit(r, name, payload) ==
    events' = [events EXCEPT ![r] = Append(@, Event(name, payload))]

\* BufRead::lines item: Ok(String) for a decodable line, Err otherwise
IsOk(line) == line # InvalidUtf8

\* the stdout reader's private exit flag: Arc::new(AtomicBool::new(true)),
\* cloned into the thread and never stored to again
is_running_clone == TRUE

(* ---------------------------------------------------------------------- *)
(* config.rs: Server, AppConfig and the JSON document                      *)
(* ---------------------------------------------------------------------- *)
\* Option<T>: None is the empty sequence, Some(x) the sequence of x
Nothing == << >>
Some(x) == <<x>>

\* the fields of struct Server, in declaration order
Fields == <<"id", "name", "server", "listen", "token", "ip", "dns", "ech",
            "routing_mode">>

\* the n-th value of Uuid::new_v4().to_string(): never empty, never equal
\* to an earlier one or to an id read from a document
Uuid(n) == "uuid-" \o ToString(n)

\* fn default_routing_mode()
default_routing_mode == "bypass_cn"

\* impl Default for Server, with the given fresh id
DefaultServer(id) ==
    [id |-> id, name |-> "default", server |-> "example.com:443",
     listen |-> "127.0.0.1:30000", token |-> "", ip |-> "saas.sin.fan",
     dns |-> "dns.alidns.com/dns-query", ech |-> "cloudflare-ech.com",
     routing_mode |-> "bypass_cn"]

\* impl Default for AppConfig
DefaultConfig(id) ==
    [servers |-> <<DefaultServer(id)>>, current_server_id |-> Some(id)]

\* a JSON object is the sequence of its <<key, value>> members
HasKey(obj, k) == \E i \in 1..Len(obj) : obj[i][1] = k
Member(obj, k) == obj[CHOOSE i \in 1..Len(obj) : obj[i][1] = k][2]

\* variant of ServerToJson that leaves out the members whose value is ""
ServerToJson_SkipEmpty(s) ==
    SelectSeq([i \in 1..Len(Fields) |-> <<Fields[i], s[Fields[i]]>>],
              LAMBDA m : m[2] # "")

\* derive(Serialize) for Server: every field is written, in order
ServerToJson(s) == [i \in 1..Len(Fields) |-> <<Fields[i], s[Fields[i]]>>]

\* derive(Deserialize) for Server: id and name are required, a missing
\* #[serde(default)] field is "", a missing routing_mode is "bypass_cn"
ServerParses(obj) == HasKey(obj, "id") /\ HasKey(obj, "name")

ServerFromJson(obj) ==
    LET Opt(k, d) == IF HasKey(obj, k) THEN Member(obj, k) ELSE d
    IN [id |-> Member(obj, "id"), name |-> Member(obj, "name"),
        server |-> Opt("server", ""), listen |-> Opt("listen", ""),
        token |-> Opt("token", ""), ip |-> Opt("ip", ""),
        dns |-> Opt("dns", ""), ech |-> Opt("ech", ""),
        routing_mode |-> Opt("routing_mode", default_routing_mode)]

\* the file at config_path: absent, text that is not a JSON document
\* (among them every proper prefix of one), or a JSON document
File(kind, servers, current) ==
    [kind |-> kind, servers |-> servers, current_server_id |-> current]
Absent == File("absent", << >>, Nothing)
Unparseable == File("unparseable", << >>, Nothing)

\* serde_json::to_string_pretty(&*config)
Serialize(cfg) ==
    File("json",
         [i \in 1..Len(cfg.servers) |-> ServerToJson(cfg.servers[i])],
         cfg.current_server_id)

\* serde_json::from_str::<AppConfig>(&content).ok()
Deserialize(file) ==
    IF /\ file.kind = "json"
       /\ \A i \in 1..Len(file.servers) : ServerParses(file.servers[i])
      THEN Some([servers |-> [i \in 1..Len(file.servers) |->
                                 ServerFromJson(file.servers[i])],
                 current_server_id |-> file.current_server_id])
      ELSE Nothing

\* ConfigManager::load_from_path
load_from_path(file) ==
    IF file.kind # "absent" THEN Deserialize(file) ELSE Nothing

\* ConfigManager::new: load_from_path(..).unwrap_or_default(); the default
\* draws the first uuid
NewConfig(file) ==
    IF load_from_path(file) # Nothing
      THEN load_from_path(file)[1]
      ELSE DefaultConfig(Uuid(1))

NewUuids(file) == IF load_from_path(file) # Nothing THEN 0 ELSE 1

\* ConfigManager::get_current_server
get_current_server(cfg) ==
    LET found(id) == SelectSeq(cfg.servers, LAMBDA s : s.id = id)
    IN IF cfg.current_server_id # Nothing
         THEN IF found(cfg.current_server_id[1]) # << >>
                THEN Some(found(cfg.current_server_id[1])[1])
                ELSE Nothing
         ELSE IF cfg.servers # << >> THEN Some(cfg.servers[1]) ELSE Nothing

\* config.servers.iter().any(|s| s.id == id)
HasId(cfg, id) == \E i \in 1..Len(cfg.servers) : cfg.servers[i].id = id

\* the element iter_mut().find(|s| s.id == id) yields: the first match
FindId(cfg, id) ==
    CHOOSE i \in 1..Len(cfg.servers) :
        /\ cfg.servers[i].id = id
        /\ \A j \in 1..(i - 1) : cfg.servers[j].id # id

\* ConfigManager::set_current_server
set_current_server(cfg, id) ==
    IF HasId(cfg, id) THEN [cfg EXCEPT !.current_server_id = Some(id)]
                      ELSE cfg

\* variant of add_server that leaves the current selection alone
add_server_KeepCurrent(cfg, s, fresh) ==
    LET id == IF s.id = "" THEN fresh ELSE s.id
    IN [servers |-> Append(cfg.servers, [s EXCEPT !.id = id]),
        current_server_id |-> cfg.current_server_id]

\* ConfigManager::add_server, fresh being the uuid drawn for an empty id
add_server(cfg, s, fresh) ==
    LET id == IF s.id = "" THEN fresh ELSE s.id
    IN [servers |-> Append(cfg.servers, [s EXCEPT !.id = id]),
        current_server_id |-> Some(id)]

\* variant of update_server that removes the match and pushes the new value
update_server_MoveLast(cfg, p) ==
    IF HasId(cfg, p.id)
      THEN [cfg EXCEPT !.servers =
               Append(SelectSeq(cfg.servers, LAMBDA s : s.id # p.id), p)]
      ELSE cfg

\* ConfigManager::update_server; it returns HasId(cfg, p.id)
update_server(cfg, p) ==
    IF HasId(cfg, p.id)
      THEN [cfg EXCEPT !.servers[FindId(cfg, p.id)] = p]
      ELSE cfg

\* ConfigManager::delete_server, fresh being the uuid of the Server::default()
\* pushed when nothing is left
delete_server(cfg, id, fresh) ==
    LET kept == SelectSeq(cfg.servers, LAMBDA s : s.id # id)
        servers == IF kept = << >> THEN <<DefaultServer(fresh)>> ELSE kept
    IN [servers |-> servers,
        current_server_id |->
            IF cfg.current_server_id = Some(id)
              THEN Some(servers[1].id)
              ELSE cfg.current_server_id]

\* the value delete_server returns: config.servers.len() < initial_len
delete_server_ret(cfg, id, fresh) ==
    Len(delete_server(cfg, id, fresh).servers) < Len(cfg.servers)

\* delete_server pushes a Server::default()
delete_server_empties(cfg, id) ==
    SelectSeq(cfg.servers, LAMBDA s : s.id # id) = << >>

\* ConfigManager::rename_server; it returns HasId(cfg, id)
rename_server(cfg, id, new_name) ==
    IF HasId(cfg, id)
      THEN [cfg EXCEPT !.servers[FindId(cfg, id)].name = new_name]
      ELSE cfg

\* the ids the UI may name: ids of documents, generated ids, an unknown one
Ids == {"a", "b", "c", "zz"} \cup {Uuid(n) : n \in 1..MaxUuids}

\* the name the UI gives in add_server and rename_server
NewName == "u"

\* the profile the UI sends in update_server for the id it edits
Edited(id) ==
    [DefaultServer(id) EXCEPT !.name = NewName, !.listen = "",
                              !.routing_mode = ""]

\* the Server add_server of commands.rs builds: Server::default() with the
\* name given and the id cleared (the uuid Server::default() drew is
\* dropped with it)
NewServer(name) == [DefaultServer("") EXCEPT !.name = name]

\* JSON objects a config.json found at startup may hold: a complete
\* profile, one with only the required members, one without "listen"
ObjA == << <<"id", "a">>, <<"name", "n">>, <<"server", "relay:443">>,
           <<"listen", "127.0.0.1:30000">>, <<"token", "">>,
           <<"ip", "saas.sin.fan">>, <<"dns", "dns.alidns.com/dns-query">>,
           <<"ech", "cloudflare-ech.com">>, <<"routing_mode", "">> >>
ObjB == << <<"id", "b">>, <<"name", "">> >>
ObjC == << <<"id", "c">>, <<"name", "n">>, <<"server", "relay:443">> >>
\* a member list serde rejects: "name" is missing
ObjNoName == << <<"id", "x">> >>

\* the config.json files ConfigManager::new may find: none, one that does
\* not parse, and documents of up to two profiles, whose ids and
\* current_server_id nothing has validated
Documents ==
    LET Objs == {ObjA, ObjB, ObjC}
        Lists == {<< >>} \cup {<<x>> : x \in Objs}
                         \cup {<<x, y>> : x \in Objs, y \in Objs}
        Currents == {Nothing, Some("a"), Some("b"), Some("c"), Some("zz")}
    IN {Absent, Unparseable, File("json", <<ObjNoName>>, Nothing)}
         \cup {File("json", l, c) : l \in Lists, c \in Currents}

\* macOS: the network services `networksetup -listallnetworkservices` lists
Services == {"Wi-Fi", "Ethernet"}

(* ---------------------------------------------------------------------- *)
(* ProcessManager::new                                                     *)
(* ---------------------------------------------------------------------- *)
\* the facade at rest on a first start: no config file, proxy off
FacadeInit ==
    /\ disk = Absent
    /\ config = NewConfig(Absent)
    /\ uuids = NewUuids(Absent)
    /\ json = [t \in Threads |-> Absent]
    /\ quit = "no"
    /\ platform = "other"
    /\ ProxyEnable = 0
    /\ socks = [s \in Services |-> FALSE]
    /\ server = DefaultServer(Uuid(1))
    /\ args = << >>

\* the facade at rest after ConfigManager::new has read config.json
LoadedInit ==
    /\ disk \in Documents
    /\ config = NewConfig(disk)
    /\ uuids = NewUuids(disk)
    /\ json = [t \in Threads |-> Absent]
    /\ quit = "no"
    /\ platform = "other"
    /\ ProxyEnable = 0
    /\ socks = [s \in Services |-> FALSE]
    /\ server = DefaultServer(Uuid(1))
    /\ args = << >>

ProcessInit ==
    /\ is_running = FALSE
    /\ child = None
    /\ lock = "free"
    /\ pc = [t \in Threads |-> "idle"]
    /\ local = [t \in Threads |-> None]
    /\ result = [t \in Threads |-> "none"]
    /\ worker = [w \in Workers |-> "unborn"]
    /\ stdout = [w \in Workers |-> << >>]
    /\ reader = [w \in Workers |-> "none"]
    /\ rpos = [w \in Workers |-> 0]
    /\ events = [r \in Runs |-> << >>]
    /\ spawned = 0

Init == ProcessInit /\ FacadeInit

\* return from a call with the given Result
Return(t, r) ==
    /\ pc' = [pc EXCEPT ![t] = "idle"]
    /\ result' = [result EXCEPT ![t] = r]
    /\ local' = [local EXCEPT ![t] = None]

Goto(t, label) ==
    /\ pc' = [pc EXCEPT ![t] = label]
    /\ UNCHANGED result

(* ---------------------------------------------------------------------- *)
(* ProcessManager::start                                                   *)
(* ---------------------------------------------------------------------- *)
\* a thread enters start() (start_process has validated the profile):
\* if self.is_running() { return Err("already running") }
StartCheck(t) ==
    /\ pc[t] = "idle"
    /\ IF is_running
         THEN Return(t, "already_running")
         ELSE /\ pc' = [pc EXCEPT ![t] = "st_spawn"]
              /\ result' = [result EXCEPT ![t] = "none"]
              /\ UNCHANGED local
    /\ UNCHANGED <<is_running, child, lock, worker, stdout, reader,
                   rpos, events, spawned>>
    /\ UNCHANGED facadeVars

\* Self::find_executable() is None: ok_or_else(..)? returns the error
StartFindFail(t) ==
    /\ pc[t] = "st_spawn"
    /\ Return(t, "not_found")
    /\ UNCHANGED <<is_running, child, lock, worker, stdout, reader,
                   rpos, events, spawned>>
    /\ UNCHANGED facadeVars

\* variant of StartSpawnFail in which the flag is set before the spawn
StartSpawnFail_FlagSet(t) ==
    /\ pc[t] = "st_spawn"
    /\ is_running' = TRUE
    /\ Return(t, "spawn_failed")
    /\ UNCHANGED <<child, lock, worker, stdout, reader, rpos, events,
                   spawned>>
    /\ UNCHANGED facadeVars

\* the binary is found but cmd.spawn() fails: map_err(..)?
StartSpawnFail(t) ==
    /\ pc[t] = "st_spawn"
    /\ Return(t, "spawn_failed")
    /\ UNCHANGED <<is_running, child, lock, worker, stdout, reader,
                   rpos, events, spawned>>
    /\ UNCHANGED facadeVars

\* the binary is found and let mut child = cmd.spawn()? succeeds: a new
\* OS process is alive
StartSpawn(t) ==
    /\ pc[t] = "st_spawn"
    /\ spawned < MaxWorkers
    /\ spawned' = spawned + 1
    /\ worker' = [worker EXCEPT ![spawned + 1] = "alive"]
    /\ local' = [local EXCEPT ![t] = spawned + 1]
    /\ Goto(t, "st_flag")
    /\ UNCHANGED <<is_running, child, lock, stdout, reader, rpos, events>>
    /\ UNCHANGED facadeVars

\* self.is_running.store(true, SeqCst)
StartSetFlag(t) ==
    /\ pc[t] = "st_flag"
    /\ is_running' = TRUE
    /\ Goto(t, "st_reader")
    /\ UNCHANGED <<child, lock, local, worker, stdout, reader, rpos, events,
                   spawned>>
    /\ UNCHANGED facadeVars

\* child.stdout.take() is Some (Stdio::piped): thread::spawn of the reader
StartSpawnReader(t) ==
    /\ pc[t] = "st_reader"
    /\ reader' = [reader EXCEPT ![local[t]] = "running"]
    /\ Goto(t, "st_store")
    /\ UNCHANGED <<is_running, child, lock, local, worker, stdout, rpos,
                   events, spawned>>
    /\ UNCHANGED facadeVars

\* *self.child.lock() = Some(child): the guard lives for this statement
\* only; a Child that was in the slot is dropped, which neither kills
\* nor reaps its process
StartStoreChild(t) ==
    /\ pc[t] = "st_store"
    /\ lock = "free"
    /\ child' = local[t]
    /\ Goto(t, "st_emit")
    /\ UNCHANGED <<is_running, lock, local, worker, stdout, reader, rpos,
                   events, spawned>>
    /\ UNCHANGED facadeVars

\* app_handle.emit("process-started", ()); Ok(())
StartEmit(t) ==
    /\ pc[t] = "st_emit"
    /\ Emit(local[t], "process-started", "")
    /\ Return(t, "ok")
    /\ UNCHANGED <<is_running, child, lock, worker, stdout, reader,
                   rpos, spawned>>
    /\ UNCHANGED facadeVars

(* ---------------------------------------------------------------------- *)
(* ProcessManager::start: the command line                                 *)
(* ---------------------------------------------------------------------- *)
\* variant of BuildArgs that passes -dns even for the default resolver
BuildArgs_DnsAlways(s) ==
    (IF s.server # "" THEN <<"-f", s.server>> ELSE << >>)
    \o (IF s.listen # "" THEN <<"-l", s.listen>> ELSE << >>)
    \o (IF s.token # "" THEN <<"-token", s.token>> ELSE << >>)
    \o (IF s.ip # "" THEN <<"-ip", s.ip>> ELSE << >>)
    \o (IF s.dns # "" THEN <<"-dns", s.dns>> ELSE << >>)
    \o (IF s.ech # "" /\ s.ech # "cloudflare-ech.com"
          THEN <<"-ech", s.ech>> ELSE << >>)
    \o (IF s.routing_mode # "" THEN <<"-routing", s.routing_mode>>
                                ELSE << >>)

\* the cmd.args([..]) calls of start(), in order
BuildArgs(s) ==
    (IF s.server # "" THEN <<"-f", s.server>> ELSE << >>)
    \o (IF s.listen # "" THEN <<"-l", s.listen>> ELSE << >>)
    \o (IF s.token # "" THEN <<"-token", s.token>> ELSE << >>)
    \o (IF s.ip # "" THEN <<"-ip", s.ip>> ELSE << >>)
    \o (IF s.dns # "" /\ s.dns # "dns.alidns.com/dns-query"
          THEN <<"-dns", s.dns>> ELSE << >>)
    \o (IF s.ech # "" /\ s.ech # "cloudflare-ech.com"
          THEN <<"-ech", s.ech>> ELSE << >>)
    \o (IF s.routing_mode # "" THEN <<"-routing", s.routing_mode>>
                                ELSE << >>)

\* the profiles start() is given: each field empty, at its default, or set
ArgServers ==
    [id : {"a"}, name : {"n"},
     server : {"", "relay:443"},
     listen : {"", "127.0.0.1:30000"},
     token : {"", "t"},
     ip : {"", "saas.sin.fan"},
     dns : {"", "dns.alidns.com/dns-query", "1.1.1.1/dns-query"},
     ech : {"", "cloudflare-ech.com", "ech.example"},
     routing_mode : {"", "bypass_cn", "global"}]

\* start() builds the command for the profile it was given
BuildCommand ==
    /\ args = << >>
    /\ args' = BuildArgs(server)
    /\ UNCHANGED processVars
    /\ UNCHANGED <<config, disk, json, uuids, quit, platform, ProxyEnable,
                   socks, server>>

\* the next start() is given another profile
NextProfile ==
    /\ args # << >>
    /\ server' \in ArgServers
    /\ args' = << >>
    /\ UNCHANGED processVars
    /\ UNCHANGED <<config, disk, json, uuids, quit, platform, ProxyEnable,
                   socks>>

ArgInit ==
    /\ disk = Absent
    /\ config = NewConfig(Absent)
    /\ uuids = NewUuids(Absent)
    /\ json = [t \in Threads |-> Absent]
    /\ quit = "no"
    /\ platform = "other"
    /\ ProxyEnable = 0
    /\ socks = [s \in Services |-> FALSE]
    /\ server \in ArgServers
    /\ args = << >>

(* ---------------------------------------------------------------------- *)
(* commands.rs: start_process                                              *)
(* ---------------------------------------------------------------------- *)
\* variant of StartProcess without the check of `listen`
StartProcess_NoListenCheck(t) ==
    /\ pc[t] = "idle"
    /\ LET cur == get_current_server(config)
       IN IF cur = Nothing \/ cur[1].server = ""
            THEN /\ Return(t, IF cur = Nothing THEN "no_server"
                                                ELSE "empty_server")
                 /\ UNCHANGED <<is_running, child, lock, worker, stdout,
                                reader, rpos, events, spawned>>
                 /\ UNCHANGED facadeVars
            ELSE StartCheck(t)

\* start_process: the current profile must exist and have a server and a
\* listen address, then PROCESS_MANAGER.start(&server, app_handle)
StartProcess(t) ==
    /\ pc[t] = "idle"
    /\ LET cur == get_current_server(config)
       IN IF cur = Nothing \/ cur[1].server = "" \/ cur[1].listen = ""
            THEN /\ Return(t, IF cur = Nothing THEN "no_server"
                              ELSE IF cur[1].server = "" THEN "empty_server"
                              ELSE "empty_listen")
                 /\ UNCHANGED <<is_running, child, lock, worker, stdout,
                                reader, rpos, events, spawned>>
                 /\ UNCHANGED facadeVars
            ELSE StartCheck(t)

(* ---------------------------------------------------------------------- *)
(* ProcessManager::stop (called by stop_process)                           *)
(* ---------------------------------------------------------------------- *)
StopLabels == {"sp_lock", "sp_term", "sp_trywait", "sp_kill", "sp_wait",
               "sp_emit"}

\* number of stop() calls begun so far: those that have emitted their
\* process-stopped and those still in progress
StopsBegun ==
    LET Stopped(r) == Len(SelectSeq(events[r],
                                    LAMBDA e : e.name = "process-stopped"))
        Sum[n \in 0..MaxWorkers] ==
            IF n = 0 THEN Stopped(0) ELSE Stopped(n) + Sum[n - 1]
    IN Sum[MaxWorkers]
         + Cardinality({t \in Threads : pc[t] \in StopLabels})

\* a thread enters stop(): self.is_running.store(false, SeqCst)
StopClearFlag(t) ==
    /\ pc[t] = "idle"
    /\ StopsBegun < MaxStops
    /\ is_running' = FALSE
    /\ pc' = [pc EXCEPT ![t] = "sp_lock"]
    /\ result' = [result EXCEPT ![t] = "none"]
    /\ UNCHANGED <<child, lock, local, worker, stdout, reader, rpos, events,
                   spawned>>
    /\ UNCHANGED facadeVars

\* let mut child_guard = self.child.lock(); child_guard.take()
\* the guard is held until stop() returns
StopTake(t) ==
    /\ pc[t] = "sp_lock"
    /\ lock = "free"
    /\ lock' = t
    /\ local' = [local EXCEPT ![t] = child]
    /\ child' = None
    /\ Goto(t, IF child = None THEN "sp_emit" ELSE "sp_term")
    /\ UNCHANGED <<is_running, worker, stdout, reader, rpos, events, spawned>>
    /\ UNCHANGED facadeVars

\* #[cfg(unix)] libc::kill(pid, SIGTERM): the worker may exit on it, at a
\* time of its choosing (WorkerExit), or ignore it
StopSigterm(t) ==
    /\ pc[t] = "sp_term"
    /\ Goto(t, "sp_trywait")
    /\ UNCHANGED <<is_running, child, lock, local, worker, stdout, reader,
                   rpos, events, spawned>>
    /\ UNCHANGED facadeVars

\* #[cfg(windows)] let _ = child.kill(): TerminateProcess, which has taken
\* effect or not by the time try_wait looks
StopKillWindows(t) ==
    /\ pc[t] = "sp_term"
    /\ \E done \in BOOLEAN :
         worker' = IF done /\ worker[local[t]] = "alive"
                     THEN [worker EXCEPT ![local[t]] = "exited"]
                     ELSE worker
    /\ Goto(t, "sp_trywait")
    /\ UNCHANGED <<is_running, child, lock, local, stdout, reader, rpos,
                   events, spawned>>
    /\ UNCHANGED facadeVars

\* variant of StopTryWait with an empty `_` arm: no grace period, no kill
StopTryWait_NoKill(t) ==
    /\ pc[t] = "sp_trywait"
    /\ IF worker[local[t]] = "exited"
         THEN worker' = [worker EXCEPT ![local[t]] = "reaped"]
         ELSE UNCHANGED worker
    /\ Goto(t, "sp_emit")
    /\ UNCHANGED <<is_running, child, lock, local, stdout, reader, rpos,
                   events, spawned>>
    /\ UNCHANGED facadeVars

\* match child.try_wait() { Ok(Some(_)) => {} , _ => .. }: an exited
\* process is reaped by try_wait, otherwise the grace period follows
StopTryWait(t) ==
    /\ pc[t] = "sp_trywait"
    /\ IF worker[local[t]] = "exited"
         THEN /\ worker' = [worker EXCEPT ![local[t]] = "reaped"]
              /\ Goto(t, "sp_emit")
         ELSE /\ UNCHANGED worker
              /\ Goto(t, "sp_kill")
    /\ UNCHANGED <<is_running, child, lock, local, stdout, reader, rpos,
                   events, spawned>>
    /\ UNCHANGED facadeVars

\* thread::sleep(500ms); let _ = child.kill()
StopKill(t) ==
    /\ pc[t] = "sp_kill"
    /\ worker' = IF worker[local[t]] = "alive"
                   THEN [worker EXCEPT ![local[t]] = "exited"]
                   ELSE worker
    /\ Goto(t, "sp_wait")
    /\ UNCHANGED <<is_running, child, lock, local, stdout, reader, rpos,
                   events, spawned>>
    /\ UNCHANGED facadeVars

\* variant of StopWait that does not wait for the killed process
StopWait_NoReap(t) ==
    /\ pc[t] = "sp_wait"
    /\ Goto(t, "sp_emit")
    /\ UNCHANGED <<is_running, child, lock, local, worker, stdout, reader,
                   rpos, events, spawned>>
    /\ UNCHANGED facadeVars

\* let _ = child.wait(): blocks until the process has exited, reaps it
StopWait(t) ==
    /\ pc[t] = "sp_wait"
    /\ worker[local[t]] = "exited"
    /\ worker' = [worker EXCEPT ![local[t]] = "reaped"]
    /\ Goto(t, "sp_emit")
    /\ UNCHANGED <<is_running, child, lock, local, stdout, reader, rpos,
                   events, spawned>>
    /\ UNCHANGED facadeVars

\* app_handle.emit("process-stopped", ()); Ok(()); child_guard dropped
StopEmit(t) ==
    /\ pc[t] = "sp_emit"
    /\ Emit(local[t], "process-stopped", "")
    /\ lock' = "free"
    /\ Return(t, "ok")
    /\ UNCHANGED <<is_running, child, worker, stdout, reader, rpos,
                   spawned>>
    /\ UNCHANGED facadeVars

(* ---------------------------------------------------------------------- *)
(* The worker process (ech-workers), a black box                           *)
(* ---------------------------------------------------------------------- *)
\* number of lines written so far by all workers
LinesWritten ==
    LET Sum[n \in 0..MaxWorkers] ==
            IF n = 0 THEN 0 ELSE Len(stdout[n]) + Sum[n - 1]
    IN Sum[MaxWorkers]

\* the worker writes one more line to its stdout pipe
WorkerWrite(w) ==
    /\ worker[w] = "alive"
    /\ LinesWritten < MaxLines
    /\ \E l \in StdoutLines : stdout' = [stdout EXCEPT ![w] = Append(@, l)]
    /\ UNCHANGED <<is_running, child, lock, pc, local, result, worker,
                   reader, rpos, events, spawned>>
    /\ UNCHANGED facadeVars

\* the worker exits (on its own, or on SIGTERM); its stdout closes
WorkerExit(w) ==
    /\ worker[w] = "alive"
    /\ worker' = [worker EXCEPT ![w] = "exited"]
    /\ UNCHANGED <<is_running, child, lock, pc, local, result, stdout,
                   reader, rpos, events, spawned>>
    /\ UNCHANGED facadeVars

(* ---------------------------------------------------------------------- *)
(* The stdout reader thread spawned by start()                             *)
(* ---------------------------------------------------------------------- *)
\* variant of ReaderLine that emits only lines that are not empty
ReaderLine_SkipEmpty(w) ==
    /\ reader[w] = "running"
    /\ rpos[w] < Len(stdout[w])
    /\ rpos' = [rpos EXCEPT ![w] = @ + 1]
    /\ UNCHANGED reader
    /\ IF IsOk(stdout[w][rpos[w] + 1]) /\ stdout[w][rpos[w] + 1] # ""
         THEN Emit(w, "log-output", stdout[w][rpos[w] + 1])
         ELSE UNCHANGED events
    /\ UNCHANGED <<is_running, child, lock, pc, local, result, worker,
                   stdout, spawned>>
    /\ UNCHANGED facadeVars

\* variant of ReaderLine that emits the newest line in the pipe instead of
\* the next one
ReaderLine_Newest(w) ==
    /\ reader[w] = "running"
    /\ rpos[w] < Len(stdout[w])
    /\ rpos' = [rpos EXCEPT ![w] = @ + 1]
    /\ UNCHANGED reader
    /\ IF IsOk(stdout[w][Len(stdout[w])])
         THEN Emit(w, "log-output", stdout[w][Len(stdout[w])])
         ELSE UNCHANGED events
    /\ UNCHANGED <<is_running, child, lock, pc, local, result, worker,
                   stdout, spawned>>
    /\ UNCHANGED facadeVars

\* one iteration of `for line in reader.lines()`: break if the private
\* flag is false, emit log-output if the line is Ok
ReaderLine(w) ==
    /\ reader[w] = "running"
    /\ rpos[w] < Len(stdout[w])
    /\ rpos' = [rpos EXCEPT ![w] = @ + 1]
    /\ IF ~is_running_clone
         THEN /\ reader' = [reader EXCEPT ![w] = "done"]
              /\ UNCHANGED events
         ELSE /\ UNCHANGED reader
              /\ IF IsOk(stdout[w][rpos[w] + 1])
                   THEN Emit(w, "log-output", stdout[w][rpos[w] + 1])
                   ELSE UNCHANGED events
    /\ UNCHANGED <<is_running, child, lock, pc, local, result, worker,
                   stdout, spawned>>
    /\ UNCHANGED facadeVars

\* lines() ends: the pipe is drained and its write end is closed
ReaderEof(w) ==
    /\ reader[w] = "running"
    /\ rpos[w] = Len(stdout[w])
    /\ worker[w] \in {"exited", "reaped"}
    /\ reader' = [reader EXCEPT ![w] = "done"]
    /\ UNCHANGED <<is_running, child, lock, pc, local, result, worker,
                   stdout, rpos, events, spawned>>
    /\ UNCHANGED facadeVars

(* ---------------------------------------------------------------------- *)
(* Specifications                                                          *)
(* ---------------------------------------------------------------------- *)
\* no call is in progress on any thread
Quiescent == \A t \in Threads : pc[t] = "idle"

CallStep(t) ==
    \/ StartFindFail(t)
    \/ StartSpawnFail(t)
    \/ StartSpawn(t)
    \/ StartSetFlag(t)
    \/ StartSpawnReader(t)
    \/ StartStoreChild(t)
    \/ StartEmit(t)
    \/ StopTake(t)
    \/ StopSigterm(t)
    \/ StopKillWindows(t)
    \/ StopTryWait(t)
    \/ StopKill(t)
    \/ StopWait(t)
    \/ StopEmit(t)

Environment ==
    \/ \E w \in Workers : WorkerWrite(w)
    \/ \E w \in Workers : WorkerExit(w)
    \/ \E w \in Workers : ReaderLine(w)
    \/ \E w \in Workers : ReaderEof(w)

\* ProcessManager is Sync: start() and stop() may be called from any thread
Next ==
    \/ \E t \in Threads : StartCheck(t)
    \/ \E t \in Threads : StopClearFlag(t)
    \/ \E t \in Threads : CallStep(t)
    \/ Environment

Spec == Init /\ [][Next]_vars

\* the facade's scheduling (spec section 5): one UI thread, each handler
\* runs to completion before the next is dispatched
SeqNext ==
    \/ \E t \in Threads : Quiescent /\ StartCheck(t)
    \/ \E t \in Threads : Quiescent /\ StopClearFlag(t)
    \/ \E t \in Threads : CallStep(t)
    \/ Environment

SeqSpec == Init /\ [][SeqNext]_vars

\* concurrent callers and the workers' lifecycles alone: the stdout traffic,
\* which start() and stop() neither read nor write, is left out
LifeNext ==
    \/ \E t \in Threads : StartCheck(t)
    \/ \E t \in Threads : StopClearFlag(t)
    \/ \E t \in Threads : CallStep(t)
    \/ \E w \in Workers : WorkerExit(w)

LifeSpec == Init /\ [][LifeNext]_vars

(* ---------------------------------------------------------------------- *)
(* ConfigManager: the operations on the catalog, each under the write lock *)
(* ---------------------------------------------------------------------- *)
storeFrame ==
    /\ UNCHANGED processVars
    /\ UNCHANGED <<disk, json, quit, platform, ProxyEnable, socks, server, args>>

StoreSelect(i) ==
    /\ config' = set_current_server(config, i)
    /\ UNCHANGED uuids
    /\ storeFrame

StoreAdd(name) ==
    /\ Len(config.servers) < MaxServers
    /\ uuids < MaxUuids
    /\ uuids' = uuids + 1
    /\ config' = add_server(config, NewServer(name), Uuid(uuids + 1))
    /\ storeFrame

StoreUpdate(p) ==
    /\ config' = update_server(config, p)
    /\ UNCHANGED uuids
    /\ storeFrame

StoreDelete(i) ==
    /\ delete_server_empties(config, i) => uuids < MaxUuids
    /\ config' = delete_server(config, i, Uuid(uuids + 1))
    /\ uuids' = IF delete_server_empties(config, i) THEN uuids + 1 ELSE uuids
    /\ storeFrame

StoreRename(i, n) ==
    /\ config' = rename_server(config, i, n)
    /\ UNCHANGED uuids
    /\ storeFrame

\* any sequence of operations on the catalog ConfigManager::new produced
StoreNext ==
    \/ \E i \in Ids : StoreSelect(i)
    \/ StoreAdd(NewName)
    \/ \E i \in Ids : StoreUpdate(Edited(i))
    \/ \E i \in Ids : StoreDelete(i)
    \/ \E i \in Ids : StoreRename(i, NewName)

StoreSpecInit == ProcessInit /\ LoadedInit

StoreSpec == StoreSpecInit /\ [][StoreNext]_vars

(* ---------------------------------------------------------------------- *)
(* ConfigManager::save                                                     *)
(* ---------------------------------------------------------------------- *)
supervisorVars == <<is_running, child, lock, worker, stdout, reader, rpos,
                    events, spawned>>
hostVars == <<quit, platform, ProxyEnable, socks, server, args>>

\* a command handler turns to save() after its change of the catalog; the
\* write lock of the change has been released
Save(t) ==
    /\ Goto(t, "sv_lock")
    /\ UNCHANGED <<json, local>>

\* let config = self.config.read(); to_string_pretty(&*config): the read
\* lock is taken, and held until save() returns, and the document is
\* serialized (to_string_pretty does not fail on a struct of strings)
SaveSerialize(t) ==
    /\ pc[t] = "sv_lock"
    /\ json' = [json EXCEPT ![t] = Serialize(config)]
    /\ Goto(t, "sv_open")
    /\ UNCHANGED <<config, disk, uuids, local>>
    /\ UNCHANGED supervisorVars
    /\ UNCHANGED hostVars

\* fs::write cannot create or open config.json: the file is as it was
SaveOpenFail(t) ==
    /\ pc[t] = "sv_open"
    /\ Return(t, "io_error")
    /\ UNCHANGED <<config, disk, uuids>>
    /\ json' = [json EXCEPT ![t] = Absent]
    /\ UNCHANGED supervisorVars
    /\ UNCHANGED hostVars

\* fs::write opens config.json with create + truncate: the file is empty
SaveTruncate(t) ==
    /\ pc[t] = "sv_open"
    /\ disk' = Unparseable
    /\ Goto(t, "sv_data")
    /\ UNCHANGED <<config, json, uuids, local>>
    /\ UNCHANGED supervisorVars
    /\ UNCHANGED hostVars

\* write_all fails (disk full, I/O error): a proper prefix of the document
\* stays in the file
SaveWriteFail(t) ==
    /\ pc[t] = "sv_data"
    /\ disk' = Unparseable
    /\ Return(t, "io_error")
    /\ UNCHANGED <<config, uuids>>
    /\ json' = [json EXCEPT ![t] = Absent]
    /\ UNCHANGED supervisorVars
    /\ UNCHANGED hostVars

\* write_all completes: the file holds the document; save() drops the
\* serialized text and the read lock, and the handler returns
\* Ok (add_server finds the profile it pushed and returns it)
SaveWrite(t) ==
    /\ pc[t] = "sv_data"
    /\ disk' = json[t]
    /\ Return(t, "ok")
    /\ UNCHANGED <<config, uuids>>
    /\ json' = [json EXCEPT ![t] = Absent]
    /\ UNCHANGED supervisorVars
    /\ UNCHANGED hostVars

SaveStep(t) ==
    \/ SaveSerialize(t)
    \/ SaveOpenFail(t)
    \/ SaveTruncate(t)
    \/ SaveWriteFail(t)
    \/ SaveWrite(t)

(* ---------------------------------------------------------------------- *)
(* commands.rs: the server commands                                        *)
(* ---------------------------------------------------------------------- *)
\* self.config.write() waits while a save() holds the read lock
NoReader == \A u \in Threads : pc[u] \notin {"sv_open", "sv_data"}

SetCurrentServerCmd(t, id) ==
    /\ pc[t] = "idle"
    /\ NoReader
    /\ config' = set_current_server(config, id)
    /\ Save(t)
    /\ UNCHANGED <<disk, uuids>>
    /\ UNCHANGED supervisorVars
    /\ UNCHANGED hostVars

AddServerCmd(t, name) ==
    /\ pc[t] = "idle"
    /\ NoReader
    /\ Len(config.servers) < MaxServers
    /\ uuids < MaxUuids
    /\ uuids' = uuids + 1
    /\ config' = add_server(config, NewServer(name), Uuid(uuids + 1))
    /\ Save(t)
    /\ UNCHANGED disk
    /\ UNCHANGED supervisorVars
    /\ UNCHANGED hostVars

UpdateServerCmd(t, p) ==
    /\ pc[t] = "idle"
    /\ NoReader
    /\ config' = update_server(config, p)
    /\ IF HasId(config, p.id)
         THEN Save(t)
         ELSE Return(t, "not_found") /\ UNCHANGED json
    /\ UNCHANGED <<disk, uuids>>
    /\ UNCHANGED supervisorVars
    /\ UNCHANGED hostVars

\* delete_server as one step, for handlers that run one at a time: nothing
\* comes between the length test and ConfigManager::delete_server
DeleteServerCmd(t, id) ==
    /\ pc[t] = "idle"
    /\ NoReader
    /\ IF Len(config.servers) <= 1
         THEN /\ Return(t, "last_server")
              /\ UNCHANGED <<config, json, uuids>>
         ELSE /\ delete_server_empties(config, id) => uuids < MaxUuids
              /\ config' = delete_server(config, id, Uuid(uuids + 1))
              /\ uuids' = IF delete_server_empties(config, id)
                            THEN uuids + 1 ELSE uuids
              /\ IF delete_server_ret(config, id, Uuid(uuids + 1))
                   THEN Save(t)
                   ELSE Return(t, "not_found") /\ UNCHANGED json
    /\ UNCHANGED disk
    /\ UNCHANGED supervisorVars
    /\ UNCHANGED hostVars

RenameServerCmd(t, id, new_name) ==
    /\ pc[t] = "idle"
    /\ NoReader
    /\ config' = rename_server(config, id, new_name)
    /\ IF HasId(config, id)
         THEN Save(t)
         ELSE Return(t, "not_found") /\ UNCHANGED json
    /\ UNCHANGED <<disk, uuids>>
    /\ UNCHANGED supervisorVars
    /\ UNCHANGED hostVars

\* delete_server of commands.rs between its two statements, holding id
DeleteLabel(id) == "dl_" \o id

\* delete_server, first statement: get_servers() takes the read lock,
\* clones the list and releases the lock; the length is then tested
DeleteCheck(t, id) ==
    /\ pc[t] = "idle"
    /\ IF Len(config.servers) <= 1
         THEN Return(t, "last_server")
         ELSE Goto(t, DeleteLabel(id)) /\ UNCHANGED local
    /\ UNCHANGED <<config, disk, json, uuids>>
    /\ UNCHANGED supervisorVars
    /\ UNCHANGED hostVars

\* delete_server, second statement: ConfigManager::delete_server under the
\* write lock, on the catalog as it is by now
DeleteApply(t, id) ==
    /\ pc[t] = DeleteLabel(id)
    /\ NoReader
    /\ delete_server_empties(config, id) => uuids < MaxUuids
    /\ config' = delete_server(config, id, Uuid(uuids + 1))
    /\ uuids' = IF delete_server_empties(config, id) THEN uuids + 1 ELSE uuids
    /\ IF delete_server_ret(config, id, Uuid(uuids + 1))
         THEN Save(t)
         ELSE Return(t, "not_found") /\ UNCHANGED json
    /\ UNCHANGED disk
    /\ UNCHANGED supervisorVars
    /\ UNCHANGED hostVars

\* the thread that dispatches the command handlers
UiThread == "ui"

\* the server commands, one handler at a time
FacadeNext ==
    \/ \E i \in Ids : Quiescent /\ SetCurrentServerCmd(UiThread, i)
    \/ Quiescent /\ AddServerCmd(UiThread, NewName)
    \/ \E i \in Ids : Quiescent /\ UpdateServerCmd(UiThread, Edited(i))
    \/ \E i \in Ids : Quiescent /\ DeleteServerCmd(UiThread, i)
    \/ \E i \in Ids : Quiescent /\ RenameServerCmd(UiThread, i, NewName)
    \/ SaveStep(UiThread)

\* the starts the server commands are followed from: a first start (no
\* config.json), a document with defaulted members and no selection, one
\* whose two profiles share an id
Startups ==
    {Absent,
     File("json", <<ObjA, ObjB>>, Nothing),
     File("json", <<ObjA, ObjA>>, Some("a"))}

StartupInit == LoadedInit /\ disk \in Startups

\* the server commands called from two threads at once, every fs::write
\* succeeding: the handlers interleave wherever no lock is held
ConcNext ==
    \/ \E t \in Threads, i \in Ids : SetCurrentServerCmd(t, i)
    \/ \E t \in Threads : AddServerCmd(t, NewName)
    \/ \E t \in Threads, i \in Ids : UpdateServerCmd(t, Edited(i))
    \/ \E t \in Threads, i \in Ids : DeleteCheck(t, i)
    \/ \E t \in Threads, i \in Ids : DeleteApply(t, i)
    \/ \E t \in Threads, i \in Ids : RenameServerCmd(t, i, NewName)
    \/ \E t \in Threads : SaveSerialize(t)
    \/ \E t \in Threads : SaveTruncate(t)
    \/ \E t \in Threads : SaveWrite(t)

ConcSpecInit == ProcessInit /\ StartupInit

ConcSpec == ConcSpecInit /\ [][ConcNext]_vars

FacadeSpecInit == ProcessInit /\ StartupInit

FacadeSpec == FacadeSpecInit /\ [][FacadeNext]_vars

(* ---------------------------------------------------------------------- *)
(* lib.rs: the tray's "quit" item                                          *)
(* ---------------------------------------------------------------------- *)
\* cfg!(target_os): the build the host is
Platforms == {"macos", "windows", "other"}

\* proxy::set_system_proxy(false, listen) with outcome r. parse_listen_addr
\* accepts every string. Windows: opening the registry key or set_value
\* fails, or ProxyEnable becomes 0. macOS: listing the services fails, or
\* every service is told to turn SOCKS off, a failing networksetup being
\* ignored. Elsewhere: Err.
set_system_proxy_off(r) ==
    \/ /\ platform = "other"
       /\ r = "proxy_err"
       /\ UNCHANGED <<ProxyEnable, socks>>
    \/ /\ platform = "windows"
       /\ \/ r = "proxy_err" /\ UNCHANGED ProxyEnable
          \/ r = "proxy_ok" /\ ProxyEnable' = 0
       /\ UNCHANGED socks
    \/ /\ platform = "macos"
       /\ \/ r = "proxy_err" /\ UNCHANGED socks
          \/ /\ r = "proxy_ok"
             /\ socks' \in {f \in [Services -> BOOLEAN] :
                               \A sv \in Services : f[sv] => socks[sv]}
       /\ UNCHANGED ProxyEnable

\* proxy::set_system_proxy(true, listen) with outcome r. Windows: opening
\* the key or writing ProxyServer fails; or ProxyEnable is written 1 and
\* writing ProxyOverride fails or succeeds. macOS: listing the services
\* fails, or every service is told to turn SOCKS on, a failing networksetup
\* being ignored. Elsewhere: Err.
set_system_proxy_on(r) ==
    \/ /\ platform = "other"
       /\ r = "proxy_on_err"
       /\ UNCHANGED <<ProxyEnable, socks>>
    \/ /\ platform = "windows"
       /\ \/ r = "proxy_on_err" /\ UNCHANGED ProxyEnable
          \/ r = "proxy_on_err" /\ ProxyEnable' = 1
          \/ r = "proxy_on_ok" /\ ProxyEnable' = 1
       /\ UNCHANGED socks
    \/ /\ platform = "macos"
       /\ \/ r = "proxy_on_err" /\ UNCHANGED socks
          \/ /\ r = "proxy_on_ok"
             /\ socks' \in {f \in [Services -> BOOLEAN] :
                               \A sv \in Services : socks[sv] => f[sv]}
       /\ UNCHANGED ProxyEnable

\* commands.rs: set_system_proxy(enabled); the listen address it reads from
\* the current profile only reaches the platform commands as an argument
SetSystemProxyCmd(t, enabled) ==
    /\ pc[t] = "idle"
    /\ \E r \in {"proxy_ok", "proxy_err", "proxy_on_ok", "proxy_on_err"} :
           /\ IF enabled THEN set_system_proxy_on(r)
                         ELSE set_system_proxy_off(r)
           /\ result' = [result EXCEPT ![t] = r]
    /\ UNCHANGED <<pc, local>>
    /\ UNCHANGED supervisorVars
    /\ UNCHANGED <<config, disk, json, uuids, quit, platform, server, args>>

\* variant of QuitStop that leaves the supervisor alone
QuitStop_NoStop(t) ==
    /\ quit = "no"
    /\ pc[t] = "idle"
    /\ quit' = "stopping"
    /\ UNCHANGED processVars
    /\ UNCHANGED <<config, disk, json, uuids, platform, ProxyEnable, socks,
                   server, args>>

\* "quit" => { let _ = stop_process(app_handle): the handler enters
\* ProcessManager::stop (its first statement, as in StopClearFlag)
QuitStop(t) ==
    /\ quit = "no"
    /\ pc[t] = "idle"
    /\ StopsBegun < MaxStops
    /\ quit' = "stopping"
    /\ is_running' = FALSE
    /\ pc' = [pc EXCEPT ![t] = "sp_lock"]
    /\ result' = [result EXCEPT ![t] = "none"]
    /\ UNCHANGED <<child, lock, local, worker, stdout, reader, rpos, events,
                   spawned>>
    /\ UNCHANGED <<config, disk, json, uuids, platform, ProxyEnable, socks,
                   server, args>>

\* stop_process has returned: let _ = set_system_proxy(false)
QuitProxy(t) ==
    /\ quit = "stopping"
    /\ pc[t] = "idle"
    /\ quit' = "exiting"
    /\ \E r \in {"proxy_ok", "proxy_err"} :
           /\ set_system_proxy_off(r)
           /\ result' = [result EXCEPT ![t] = r]
    /\ UNCHANGED <<pc, local>>
    /\ UNCHANGED supervisorVars
    /\ UNCHANGED <<config, disk, json, uuids, platform, server, args>>

\* app.exit(0)
QuitExit ==
    /\ quit = "exiting"
    /\ quit' = "exited"
    /\ UNCHANGED processVars
    /\ UNCHANGED <<config, disk, json, uuids, platform, ProxyEnable, socks,
                   server, args>>

\* the host on a first start, on any build, with the system proxy settings
\* as the system has them
QuitInit ==
    /\ disk = Absent
    /\ config = NewConfig(Absent)
    /\ uuids = NewUuids(Absent)
    /\ json = [t \in Threads |-> Absent]
    /\ quit = "no"
    /\ platform \in Platforms
    /\ ProxyEnable \in IF platform = "windows" THEN {0, 1} ELSE {0}
    /\ socks \in IF platform = "macos" THEN [Services -> BOOLEAN]
                                        ELSE {[s \in Services |-> FALSE]}
    /\ server = DefaultServer(Uuid(1))
    /\ args = << >>

\* the process commands and the quit item, one handler at a time on the
\* thread that dispatches them
QuitNext ==
    \/ Quiescent /\ quit = "no" /\ StartProcess(UiThread)
    \/ Quiescent /\ quit = "no" /\ StopClearFlag(UiThread)
    \/ QuitStop(UiThread)
    \/ CallStep(UiThread)
    \/ QuitProxy(UiThread)
    \/ QuitExit
    \/ \E w \in Workers : WorkerExit(w)

\* the process commands and the proxy switch of the UI, one handler at a
\* time
ProxyNext ==
    \/ Quiescent /\ StartProcess(UiThread)
    \/ Quiescent /\ StopClearFlag(UiThread)
    \/ CallStep(UiThread)
    \/ \E enabled \in BOOLEAN : Quiescent /\ SetSystemProxyCmd(UiThread, enabled)
    \/ \E w \in Workers : WorkerExit(w)

ProxySpecInit == ProcessInit /\ QuitInit

ProxySpec == ProxySpecInit /\ [][ProxyNext]_vars

QuitSpecInit == ProcessInit /\ QuitInit

QuitSpec == QuitSpecInit /\ [][QuitNext]_vars

\* the facade's process commands on the catalog read at startup, one
\* handler at a time
ProcNext ==
    \/ \E t \in Threads : Quiescent /\ StartProcess(t)
    \/ \E t \in Threads : Quiescent /\ StopClearFlag(t)
    \/ \E t \in Threads : CallStep(t)
    \/ \E w \in Workers : WorkerExit(w)

ProcSpecInit == ProcessInit /\ LoadedInit

ProcSpec == ProcSpecInit /\ [][ProcNext]_vars

\* the argument derivation of start() over the profiles
ArgNext == BuildCommand \/ NextProfile

ArgSpecInit == ProcessInit /\ ArgInit

ArgSpec == ArgSpecInit /\ [][ArgNext]_vars

TypeOK ==
    /\ is_running \in BOOLEAN
    /\ child \in {None} \cup Workers
    /\ lock \in {"free"} \cup Threads
    /\ \A w \in Workers : worker[w] \in {"unborn", "alive", "exited", "reaped"}
    /\ \A w \in Workers : rpos[w] <= Len(stdout[w])

(* ---------------------------------------------------------------------- *)
(* Properties                                                              *)
(* ---------------------------------------------------------------------- *)
\* the events of run r with the given name, in order of emission
Named(r, name) == SelectSeq(events[r], LAMBDA e : e.name = name)

\* the payloads of the log-output events of run w, in order of emission
Payloads(w) ==
    LET logs == Named(w, "log-output")
    IN [i \in 1..Len(logs) |-> logs[i].payload]

\* the stdout lines of run w that its reader has consumed so far
Consumed(w) == SubSeq(stdout[w], 1, rpos[w])

\* number of occurrences of x in sequence s
Count(s, x) == Cardinality({i \in 1..Len(s) : s[i] = x})

Alive == {w \in Workers : worker[w] = "alive"}

\* C1: between a successful spawn and the return of stop, every state
\* another thread can observe has is_running() true exactly when the child
\* slot holds a handle.
C1_FlagEqualsSlot == is_running <=> (child # None)

\* C2: under any interleaving of start and stop calls at most one spawned
\* worker is alive, and every live worker is held: in the child slot, or
\* in the hands of the call that is just storing or terminating it.
C2_OneLiveWorkerHeld ==
    /\ Cardinality(Alive) <= 1
    /\ \A w \in Alive : child = w \/ \E t \in Threads : local[t] = w

\* C3: once the worker held in the slot has exited on its own, the
\* supervisor is Idle again: a following start is not rejected as already
\* running.
C3_ChildExitMakesIdle ==
    [][\A t \in Threads :
          (StartCheck(t) /\ child # None /\ worker[child] = "exited")
              => result'[t] # "already_running"]_vars

\* C4: stop always returns Ok, and when it returns the supervisor is Idle
\* (empty slot, flag false) and the worker it held is reaped; so a stop
\* that follows finds Idle and leaves Idle.
C4_StopIdempotent ==
    [][\A t \in Threads :
          StopEmit(t) =>
              /\ result'[t] = "ok"
              /\ child' = None /\ ~is_running'
              /\ local[t] # None => worker'[local[t]] = "reaped"]_vars

C4_Witness ==
    /\ Quiescent /\ child = None /\ ~is_running
    /\ \E t \in Threads : result[t] = "ok"
    /\ \E w \in Workers : worker[w] = "reaped" /\ Named(w, "process-stopped") # << >>
    /\ Named(None, "process-stopped") # << >>

\* C5: in every run, each log-output event is preceded by the run's
\* process-started event.
C5_StartedBeforeLog ==
    \A w \in Workers : \A i \in 1..Len(events[w]) :
        events[w][i].name = "log-output"
            => \E j \in 1..(i - 1) : events[w][j].name = "process-started"

\* C6: when process-stopped has been emitted for a run, the worker of that
\* run has exited and been reaped, whatever the interleaving of the calls.
C6_StoppedAfterReaped ==
    \A w \in Workers :
        Named(w, "process-stopped") # << >> => worker[w] = "reaped"

C6_Witness ==
    \E w \in Workers :
        /\ Named(w, "process-stopped") # << >>
        /\ \E t \in Threads : pc[t] \in {"st_flag", "st_reader", "st_store", "st_emit"}

\* C7: a stop made while the supervisor holds no child emits no
\* process-stopped event.
C7_NoStoppedEventWhenIdle == Named(None, "process-stopped") = << >>

\* C8: while the running flag is false, no reader emits a log-output event.
C8_NoLogAfterFlagCleared ==
    [][~is_running =>
          \A w \in Workers :
              Len(Named(w, "log-output")') = Len(Named(w, "log-output"))]_vars

\* C9 (as stated): of the lines read so far, exactly the non-empty ones have
\* a log-output event; an empty line has none.
C9_OnlyNonEmptyLinesEmitted ==
    \A w \in Workers :
        Payloads(w) = SelectSeq(SelectSeq(Consumed(w), IsOk),
                                LAMBDA l : l # "")

\* C9 (amended): every line the reader has decoded, empty or not, has its
\* log-output event carrying the raw line, lines that are not valid UTF-8
\* have none, and a reader that has ended has consumed every line written.
C9_EveryDecodedLineEmitted ==
    \A w \in Workers :
        /\ \A l \in StdoutLines :
              Count(Payloads(w), l) =
                  IF IsOk(l) THEN Count(Consumed(w), l) ELSE 0
        /\ reader[w] = "done" => rpos[w] = Len(stdout[w])

C9_Witness ==
    \E w \in Workers :
        /\ Count(Payloads(w), "") >= 1
        /\ Count(Consumed(w), InvalidUtf8) >= 1

\* C10 (as stated): the log-output payloads of a run are, in the same
\* order, a prefix of the lines the worker wrote, and all of them once the
\* reader has reached the end of stdout.
C10_PayloadsArePrefixOfStdout ==
    \A w \in Workers :
        /\ Len(Payloads(w)) <= Len(stdout[w])
        /\ Payloads(w) = SubSeq(stdout[w], 1, Len(Payloads(w)))
        /\ reader[w] = "done" => Payloads(w) = stdout[w]

\* C10 (amended): the log-output payloads of a run are, in the same order,
\* the valid UTF-8 lines among those the reader has consumed: none is
\* reordered or duplicated, a line that is not valid UTF-8 is left out.
C10_LogOrderPreserved ==
    \A w \in Workers : Payloads(w) = SelectSeq(Consumed(w), IsOk)

C10_Witness ==
    \E w \in Workers :
        /\ Len(Payloads(w)) >= 2
        /\ Payloads(w)[1] # Payloads(w)[2]

\* the errors with which start_process refuses a profile
Refusals == {"no_server", "empty_server", "empty_listen"}

\* C11: when there is no current profile, or its server or listen field is
\* empty, start_process returns an error at once: no worker is spawned, no
\* event is emitted, and is_running is left as it was (false when Idle).
C11_IncompleteProfileRefused ==
    [][\A t \in Threads :
          (/\ StartProcess(t)
           /\ \/ get_current_server(config) = Nothing
              \/ get_current_server(config)[1].server = ""
              \/ get_current_server(config)[1].listen = "")
          => /\ pc'[t] = "idle" /\ result'[t] \in Refusals
             /\ spawned' = spawned /\ worker' = worker
             /\ events' = events /\ is_running' = is_running
             /\ child' = child]_vars

C11_Witness ==
    /\ \E t \in Threads : result[t] = "empty_listen"
    /\ ~is_running /\ spawned = 0

\* the flags of the worker with the profile field each one carries, in the
\* order of the worker's command line
Flags == << <<"-f", "server">>, <<"-l", "listen">>, <<"-token", "token">>,
            <<"-ip", "ip">>, <<"-dns", "dns">>, <<"-ech", "ech">>,
            <<"-routing", "routing_mode">> >>

\* a pair is left out when its value is empty, -dns and -ech also when the
\* value is the worker's default
Omitted(flag, value) ==
    \/ value = ""
    \/ flag = "-dns" /\ value = "dns.alidns.com/dns-query"
    \/ flag = "-ech" /\ value = "cloudflare-ech.com"

\* the concatenation of the pairs of the first n flags that are not omitted
RECURSIVE PairsUpTo(_, _)
PairsUpTo(s, n) ==
    IF n = 0 THEN << >>
    ELSE PairsUpTo(s, n - 1)
         \o (IF Omitted(Flags[n][1], s[Flags[n][2]])
               THEN << >>
               ELSE <<Flags[n][1], s[Flags[n][2]]>>)

\* C12: the argument vector built from a profile is the concatenation, in
\* the fixed order, of the flag/value pairs that are not omitted.
C12_ArgsFromProfile ==
    [][BuildCommand => args' = PairsUpTo(server, Len(Flags))]_vars

\* the happy-path run of the spec: dns and ech at their defaults
C12_Witness ==
    /\ server.dns = "dns.alidns.com/dns-query"
    /\ server.ech = "cloudflare-ech.com"
    /\ args = <<"-f", "relay:443", "-l", "127.0.0.1:30000", "-token", "t",
                "-ip", "saas.sin.fan", "-routing", "bypass_cn">>

\* the ids of the profiles of a catalog
IdsOf(cfg) == {cfg.servers[k].id : k \in 1..Len(cfg.servers)}

\* C13: after the store's delete(i), either i was absent and the catalog is
\* unchanged, or the catalog has max(|C|-1, 1) profiles and the current
\* selection is the id of one of them; a deleted current profile is
\* replaced as current by the first remaining one.
C13_DeleteContract ==
    [][\A i \in Ids : StoreDelete(i) =>
          \/ ~HasId(config, i) /\ config' = config
          \/ /\ HasId(config, i)
             /\ Len(config'.servers) =
                    IF Len(config.servers) - 1 > 1
                      THEN Len(config.servers) - 1 ELSE 1
             /\ config'.current_server_id # Nothing
             /\ config'.current_server_id[1] \in IdsOf(config')
             /\ (config.current_server_id = Some(i)
                   /\ ~delete_server_empties(config, i))
                  => config'.current_server_id =
                       Some(SelectSeq(config.servers,
                                      LAMBDA s : s.id # i)[1].id)]_vars

\* C15: in every state the store operations reach from the startup catalog,
\* current_server_id, when set, is the id of a profile of the catalog.
C15_CurrentIsPresent ==
    config.current_server_id # Nothing
        => config.current_server_id[1] \in IdsOf(config)

\* C14: delete_server on a catalog of exactly one profile returns the error
\* and leaves the catalog and the selection as they were, and no
\* delete_server puts a synthesized default profile into the catalog.
C14_LastProfileKept ==
    [][\A i \in Ids : DeleteServerCmd(UiThread, i) =>
          /\ Len(config.servers) = 1
               => result'[UiThread] = "last_server" /\ config' = config
          /\ \A k \in 1..Len(config'.servers) :
                 \E j \in 1..Len(config.servers) :
                     config.servers[j] = config'.servers[k]]_vars

\* ids of the catalog are pairwise distinct
DistinctIds(cfg) ==
    \A j, k \in 1..Len(cfg.servers) :
        cfg.servers[j].id = cfg.servers[k].id => j = k

\* C16: add_server makes the catalog one profile longer, the new profile is
\* the last one, the earlier ones are as they were, its id was not in the
\* catalog before (distinct ids stay distinct), and it is the selection.
C16_AddAppendsFreshCurrent ==
    [][AddServerCmd(UiThread, NewName) =>
          LET n == Len(config.servers)
          IN /\ Len(config'.servers) = n + 1
             /\ SubSeq(config'.servers, 1, n) = config.servers
             /\ config'.servers[n + 1].name = NewName
             /\ config'.servers[n + 1].id \notin IdsOf(config)
             /\ config'.servers[n + 1].id # ""
             /\ DistinctIds(config) => DistinctIds(config')
             /\ config'.current_server_id =
                    Some(config'.servers[n + 1].id)]_vars

\* add_server returned Ok on a catalog that already held a profile
C16_Witness ==
    /\ result[UiThread] = "ok"
    /\ Len(config.servers) = 2
    /\ config.servers[1].id = "a"
    /\ config.servers[2] = [DefaultServer(Uuid(1)) EXCEPT !.name = NewName]
    /\ config.current_server_id = Some(Uuid(1))

\* C17: update_server with the id of a profile of the catalog puts the new
\* value in that profile's place and leaves the length, the order, every
\* other profile and the selection as they were; with an id that is not in
\* the catalog it fails with the not-found error and changes nothing.
C17_UpdateInPlace ==
    [][\A i \in Ids : UpdateServerCmd(UiThread, Edited(i)) =>
          IF i \in IdsOf(config)
            THEN /\ Len(config'.servers) = Len(config.servers)
                 /\ \A k \in 1..Len(config.servers) :
                        /\ config'.servers[k].id = config.servers[k].id
                        /\ config.servers[k].id # i
                             => config'.servers[k] = config.servers[k]
                 /\ \E k \in 1..Len(config.servers) :
                        /\ config.servers[k].id = i
                        /\ config'.servers[k] = Edited(i)
                 /\ config'.current_server_id = config.current_server_id
                 /\ pc'[UiThread] = "sv_lock"
            ELSE /\ result'[UiThread] = "not_found"
                 /\ pc'[UiThread] = "idle"
                 /\ config' = config
                 /\ disk' = disk]_vars

\* the first of two profiles was updated and saved; the second and the
\* unset selection are as loaded
C17_Witness ==
    /\ result[UiThread] = "ok"
    /\ Len(config.servers) = 2
    /\ config.servers[1] = Edited("a")
    /\ config.servers[2] = ServerFromJson(ObjB)
    /\ config.current_server_id = Nothing

\* C18: once a command has changed the catalog and its save has succeeded,
\* loading config.json yields the catalog in memory: the same profiles in
\* the same order with the same field values, and the same selection.
C18_PersistReloadIdentity ==
    (pc[UiThread] = "idle" /\ result[UiThread] = "ok")
        => load_from_path(disk) = Some(config)

\* a renamed profile with an empty routing_mode and no selection was saved
C18_Witness ==
    /\ pc[UiThread] = "idle" /\ result[UiThread] = "ok"
    /\ disk.kind = "json"
    /\ Len(config.servers) = 2
    /\ config.servers[1] = [ServerFromJson(ObjA) EXCEPT !.name = NewName]
    /\ config.servers[1].routing_mode = ""
    /\ config.current_server_id = Nothing

\* C19: save replaces config.json atomically: whenever the file changes, it
\* changes from the complete old document to the complete document of the
\* catalog being saved, so a document that loads never gives way to a
\* truncated or partial one.
C19_PersistAtomic ==
    [][disk' # disk =>
          /\ disk' = Serialize(config)
          /\ load_from_path(disk') # Nothing]_vars

\* C20: the quit handler reaches the proxy call only when stop has returned
\* and the exit only after the proxy call; it exits after a failed proxy
\* call as after a successful one; when the host exits no spawned worker
\* is alive.
C20_QuitStopsThenExits ==
    /\ quit \in {"exiting", "exited"}
         => /\ pc[UiThread] = "idle"
            /\ result[UiThread] \in {"proxy_ok", "proxy_err"}
            /\ ~is_running /\ child = None
    /\ quit = "exiting" => ENABLED QuitExit
    /\ quit = "exited" => Alive = {}

\* the host has exited after stopping a running worker, though turning the
\* proxy off failed
C20_Witness ==
    /\ quit = "exited"
    /\ result[UiThread] = "proxy_err"
    /\ \E w \in Workers :
           /\ worker[w] = "reaped"
           /\ Named(w, "process-stopped") # << >>

\* C21: a disable that reports success right after an enable that reported
\* success leaves the proxy off: ProxyEnable is 0 on Windows, and on macOS
\* SOCKS is off on every network service.
C21_EnableDisableRestores ==
    [][(/\ result[UiThread] = "proxy_on_ok"
        /\ SetSystemProxyCmd(UiThread, FALSE)
        /\ result'[UiThread] = "proxy_ok")
          => /\ platform = "windows" => ProxyEnable' = 0
             /\ platform = "macos" => \A sv \in Services : ~socks'[sv]]_vars

\* C22: the store's delete returns true exactly when a profile with the id
\* was in the catalog and has been removed, and false exactly when the
\* catalog is left as it was; deleting the only profile returns true.
C22_DeleteReturnValue ==
    [][\A i \in Ids : StoreDelete(i) =>
          LET ok == delete_server_ret(config, i, Uuid(uuids + 1))
          IN /\ ok <=> (HasId(config, i) /\ ~HasId(config', i))
             /\ ~ok <=> config' = config
             /\ (Len(config.servers) = 1 /\ HasId(config, i)) => ok]_vars

\* the errors ProcessManager::start returns
StartErrors == {"already_running", "not_found", "spawn_failed"}

\* C23: a start that returns an error has changed nothing of the
\* supervisor: neither the step that returns the error nor the check before
\* it touches the flag, the slot, the workers, the readers or the events.
C23_StartErrorNoEffect ==
    [][\A t \in Threads :
          /\ (/\ pc[t] \in {"idle", "st_spawn"}
              /\ pc'[t] = "idle"
              /\ result'[t] \in StartErrors
              /\ <<pc[t], result[t]>> # <<pc'[t], result'[t]>>)
                => UNCHANGED supervisorVars
          /\ (pc[t] = "idle" /\ pc'[t] = "st_spawn")
                => UNCHANGED supervisorVars /\ local'[t] = None]_vars

\* start returned the spawn error on an idle supervisor: it is idle still,
\* no worker was spawned and no reader started
C23_Witness ==
    \E t \in Threads :
        /\ pc[t] = "idle"
        /\ result[t] = "spawn_failed"
        /\ ~is_running /\ child = None
        /\ spawned = 0
        /\ \A w \in Workers : reader[w] = "none"

\* C24: when the concurrently running server commands have all returned,
\* every save having succeeded and at least one command having saved,
\* config.json holds the catalog in memory.
C24_DiskIsFinalCatalog ==
    (Quiescent /\ \E t \in Threads : result[t] = "ok")
        => load_from_path(disk) = Some(config)

\* the errors the server commands return
CommandErrors == {"io_error", "not_found", "last_server"}

\* C25: a server command that returned an error has left the catalog as it
\* was before the command. Before a command, a config.json that loads
\* holds the catalog (it was read at startup or written by the last
\* successful save); so when the error is returned and the file still
\* loads, it loads as the catalog in memory.
C25_ErrorLeavesCatalog ==
    (/\ pc[UiThread] = "idle"
     /\ result[UiThread] \in CommandErrors
     /\ load_from_path(disk) # Nothing)
        => load_from_path(disk) = Some(config)
====
